---- MODULE Spec2Model ----
(***************************************************************************)
(* Demographics dashboard (src/app.jsx, mounted by src/src/main.jsx inside *)
(* React.StrictMode).  The App component is modelled as the state machine  *)
(* React drives: state cells (useState), the last committed render (view), *)
(* the two effects with their cleanups and dependency lists, and the two   *)
(* external push sources (identity provider, document store).              *)
(***************************************************************************)
EXTENDS Integers, Sequences, FiniteSets, TLC

VARIABLES
    config,          \* firebaseConfig (app.jsx:18): "empty", "invalid" or "ok"
    hasToken,        \* initialAuthToken is present (app.jsx:19)
    devMode,         \* StrictMode double-invokes effects (development build)
    pc,              \* position of React in the component's life
    db, auth, userId, isAuthReady,          \* useState cells, app.jsx:28-31
    dashboardData, loadingMessage, error,   \* useState cells, app.jsx:34-36
    view,            \* what the last render committed (props and memo values)
    authCleanup,     \* handles the auth effect's cleanup releases
    dataCleanup,     \* handles the data effect's cleanup releases
    dataDeps,        \* [db, isAuthReady] the data effect last ran with
    nextId,          \* next subscription handle
    authUser,        \* identity provider: userAuth.currentUser
    authSubs,        \* identity provider: active onAuthStateChanged observers
    authInitPending, \* observers whose initial notification is not delivered yet
    signInPending,   \* sign-in calls not settled yet
    signInCalls,     \* sign-in calls made so far
    signInFailed,    \* some sign-in call has been rejected
    signOuts,        \* sign-outs reported by the provider so far
    docOpen,         \* document store: onSnapshot listeners not released yet
    docErrored,      \* listeners whose error callback has fired
    docOpened,       \* onSnapshot calls made so far
    notifs,          \* document notifications delivered so far
    lastBody         \* body passed to setDashboardData by the latest notification

cells == <<db, auth, userId, isAuthReady, dashboardData, loadingMessage, error>>
inputs == <<config, hasToken, devMode>>
react == <<pc, view, authCleanup, dataCleanup, dataDeps, nextId>>
provider == <<authUser, authSubs, authInitPending, signInPending, signInCalls,
              signInFailed, signOuts>>
store == <<docOpen, docErrored, docOpened, notifs, lastBody>>
vars == <<inputs, cells, react, provider, store>>

----------------------------------------------------------------------------
(* Bounds of the model *)

MaxNotifs == 3      \* document notifications in one run
MaxSignOuts == 1    \* provider-side sign-outs in one run
MaxCount == 2       \* largest count in a distribution
MaxRegions == 3     \* most regions in a populationByRegion mapping
MaxBrackets == 2    \* most brackets in an incomeDistribution mapping

----------------------------------------------------------------------------
(* Values *)

NULL == "null"
Firestore == "firestore"
AuthInstance == "auth"
Uid == "uid-1"                       \* user.uid of the provider's user
FallbackUserId == "unauthenticated-user"
RandomUUID == "random-uuid"          \* crypto.randomUUID()

MsgInitializing == "Initializing dashboard..."
MsgConnecting == "Connecting to public data..."
MsgLoaded == "Data loaded successfully."
MsgNoData == "No aggregated data found yet. Please wait for initial setup."

\* first sentence of the message of app.jsx:53
ErrConfig == "Firebase configuration is missing or placeholder values are present."
ErrInit == "Failed to initialize Firebase services."
ErrSnapshot == "Failed to fetch dashboard data. Check database permissions."

\* dashboardData is null or an object; an object is a record holding the
\* fields that are present, a mapping is the sequence of its entries in
\* iteration order.
NoData == <<>>
Some(b) == <<b>>
EmptyObject == <<>>

Regions == {"North", "South", "East", "West"}
Brackets == {"0-25k", "25k-50k", "50k-75k", "75k-100k", "100k+", "other"}

----------------------------------------------------------------------------
(* Derived values, app.jsx:145-159 *)

RECURSIVE SumValues(_)
\* Object.values(m).reduce((sum, count) => sum + count, 0)
SumValues(m) ==
    IF m = <<>> THEN 0 ELSE Head(m)[2] + SumValues(Tail(m))

RECURSIVE InsertDesc(_, _)
\* Place entry e in t, sorted by the comparator (a, b) => b[1] - a[1]: e goes
\* before the first entry with a smaller value, after every entry that
\* compares equal (Array.prototype.sort is stable).
InsertDesc(t, e) ==
    IF t = <<>> THEN <<e>>
    ELSE IF Head(t)[2] - e[2] < 0 THEN <<e>> \o t
    ELSE <<Head(t)>> \o InsertDesc(Tail(t), e)

RECURSIVE SortDesc(_)
\* entries.sort((a, b) => b[1] - a[1])
SortDesc(m) ==
    IF m = <<>> THEN <<>>
    ELSE InsertDesc(SortDesc(SubSeq(m, 1, Len(m) - 1)), m[Len(m)])

HasField(data, key) == data # NoData /\ key \in DOMAIN data[1]

calculateTotal(data, key) ==
    IF ~HasField(data, key) THEN 0 ELSE SumValues(data[1][key])

avgIncome(data) ==
    IF ~HasField(data, "averageIncome") THEN 0 ELSE data[1].averageIncome

\* reduce((a, b) => (a[1] > b[1] ? a : b)): the later entry wins a tie
RECURSIVE ReduceMax(_, _)
ReduceMax(a, rest) ==
    IF rest = <<>> THEN a
    ELSE ReduceMax(IF a[2] > Head(rest)[2] THEN a ELSE Head(rest), Tail(rest))

topRegionByReduce(data) ==
    IF ~HasField(data, "populationByRegion") THEN "N/A"
    ELSE IF data[1].populationByRegion = <<>> THEN "N/A"
    ELSE ReduceMax(Head(data[1].populationByRegion),
                   Tail(data[1].populationByRegion))[1]

topRegion(data) ==
    IF ~HasField(data, "populationByRegion") THEN "N/A"
    ELSE IF data[1].populationByRegion = <<>> THEN "N/A"
    ELSE SortDesc(data[1].populationByRegion)[1][1]

\* The three useMemo values, each recomputed when dashboardData changes.
Summary(data) ==
    [totalPopulation |-> calculateTotal(data, "populationByRegion"),
     avgIncome |-> avgIncome(data),
     topRegion |-> topRegion(data)]

ScreenLoadingFirst(err, ready, dbv, data) ==
    IF ~ready \/ dbv = NULL \/ data = NoData THEN "Loading"
    ELSE IF err # NULL THEN "Error"
    ELSE "Ready"

ScreenWithoutDataCheck(err, ready, dbv, data) ==
    IF err # NULL THEN "Error"
    ELSE IF ~ready THEN "Loading"
    ELSE "Ready"

\* Render guards, app.jsx:218-243
Screen(err, ready, dbv, data) ==
    IF err # NULL THEN "Error"
    ELSE IF ~ready \/ dbv = NULL \/ data = NoData THEN "Loading"
    ELSE "Ready"

\* Object.entries(data).sort(...) of the distribution under `key`, or no
\* entries when the field is absent, app.jsx:178
ChartEntries(data, key) ==
    IF ~HasField(data, key) THEN <<>> ELSE SortDesc(data[1][key])

\* One bar: its label, its count and its share count / total.
Bar(entry, total) ==
    [label |-> entry[1], count |-> entry[2], share |-> <<entry[2], total>>]

\* The placeholder only when there is no entry at all.
DataChartEmptyOnly(data, key) ==
    LET entries == ChartEntries(data, key)
        total == SumValues(entries)
    IN  IF Len(entries) = 0 THEN [placeholder |-> TRUE, bars |-> <<>>]
        ELSE [placeholder |-> FALSE,
              bars |-> [i \in 1..Len(entries) |-> Bar(entries[i], total)]]

\* DataChart, app.jsx:177-214
DataChart(data, key) ==
    LET entries == ChartEntries(data, key)
        total == SumValues(entries)
    IN  IF total = 0 THEN [placeholder |-> TRUE, bars |-> <<>>]
        ELSE [placeholder |-> FALSE,
              bars |-> [i \in 1..Len(entries) |-> Bar(entries[i], total)]]

\* The two charts of the Ready screen, app.jsx:288-297; none on the other
\* screens.
Charts(scr, data) ==
    IF scr = "Ready"
    THEN <<DataChart(data, "populationByRegion"),
           DataChart(data, "incomeDistribution")>>
    ELSE <<>>

\* One render of App from the current state cells.
RenderOf(dbv, authv, uid, ready, data, msg, err, memo) ==
    [db |-> dbv, auth |-> authv, userId |-> uid, isAuthReady |-> ready,
     dashboardData |-> data, loadingMessage |-> msg, error |-> err,
     summary |-> memo,
     screen |-> Screen(err, ready, dbv, data),
     charts |-> Charts(Screen(err, ready, dbv, data), data)]

----------------------------------------------------------------------------
(* Document bodies the store delivers *)

Bodies ==
    { [populationByRegion |-> << <<"North", 1>>, <<"South", 2>> >>,
       incomeDistribution |-> << <<"0-25k", 1>> >>,
       averageIncome |-> 2,
       rawEntries |-> <<"entry">>],
      [populationByRegion |-> << <<"South", 2>>, <<"North", 2>> >>],
      [incomeDistribution |-> <<>>, rawEntries |-> <<>>] }

\* Every populationByRegion mapping of at most MaxRegions entries with
\* counts up to MaxCount, in every iteration order.
PopMappings ==
    UNION { { m \in [1..n -> Regions \X (0..MaxCount)] :
                \A i, j \in 1..n : i # j => m[i][1] # m[j][1] } :
            n \in 0..MaxRegions }

\* Every incomeDistribution mapping of at most MaxBrackets entries with
\* counts up to MaxCount, in every iteration order.
IncomeMappings ==
    UNION { { m \in [1..n -> Brackets \X (0..MaxCount)] :
                \A i, j \in 1..n : i # j => m[i][1] # m[j][1] } :
            n \in 0..MaxBrackets }

\* Bodies with every population mapping, and bodies with every income
\* mapping, without an averageIncome field and with one.
AggBodies ==
    { [populationByRegion |-> m, incomeDistribution |-> <<>>] :
        m \in PopMappings }
    \cup { [populationByRegion |-> <<>>, incomeDistribution |-> m] :
             m \in IncomeMappings }
    \cup { [populationByRegion |-> <<>>, incomeDistribution |-> m,
            averageIncome |-> 25000] :
             m \in IncomeMappings }

\* Field-by-field merge of the new body into the stored one.
MergeBody(prev, body) ==
    IF prev = NoData THEN Some(body)
    ELSE Some([f \in DOMAIN prev[1] \cup DOMAIN body |->
                 IF f \in DOMAIN body THEN body[f] ELSE prev[1][f]])

\* setDashboardData(docSnap.data()), app.jsx:117: the new body replaces the
\* stored one.
StoreBody(prev, body) == Some(body)

----------------------------------------------------------------------------
(* Initial state: App has rendered once, no effect has run yet. *)

InitialView ==
    RenderOf(NULL, NULL, NULL, FALSE, NoData, MsgInitializing, NULL,
             Summary(NoData))

Init ==
    /\ config \in {"empty", "invalid", "ok"}
    /\ hasToken \in BOOLEAN
    /\ devMode \in BOOLEAN
    /\ pc = "mountAuth"
    /\ db = NULL /\ auth = NULL /\ userId = NULL /\ isAuthReady = FALSE
    /\ dashboardData = NoData
    /\ loadingMessage = MsgInitializing
    /\ error = NULL
    /\ view = InitialView
    /\ authCleanup = {} /\ dataCleanup = {} /\ dataDeps = <<NULL, FALSE>>
    /\ nextId = 1
    /\ authUser = NULL /\ authSubs = {} /\ authInitPending = {}
    /\ signInPending = 0 /\ signInCalls = 0 /\ signInFailed = FALSE
    /\ signOuts = 0
    /\ docOpen = {} /\ docErrored = {} /\ docOpened = 0 /\ notifs = 0
    /\ lastBody = NoData

Mounted == pc # "unmounted"

----------------------------------------------------------------------------
(* Effect 1: Firebase initialization and authentication, app.jsx:39-101 *)

\* The cleanup an effect returned: () => unsubscribe(), app.jsx:95 and 135
ReleaseNothing(subs, handles) == subs

Release(subs, handles) == subs \ handles

\* !firebaseConfig || Object.keys(firebaseConfig).length === 0, and the
\* placeholder apiKey check that is then always true, app.jsx:41-52
ConfigCheckSkipped(cfg) == FALSE

ConfigMissing(cfg) == cfg = "empty"

\* initializeApp / getFirestore / getAuth throw on a configuration they
\* cannot use (an empty one included), app.jsx:58-61
InitThrows(cfg) == cfg \in {"empty", "invalid"}

AuthEffect ==
    /\ pc \in {"mountAuth", "remountAuth"}
    /\ pc' = IF pc = "mountAuth" THEN "mountData" ELSE "remountData"
    /\ IF ConfigMissing(config)
       THEN \* app.jsx:41-55: setError and return, nothing else is touched
            /\ error' = ErrConfig
            /\ authCleanup' = {}
            /\ UNCHANGED <<db, auth, nextId, authSubs, authInitPending,
                           signInPending, signInCalls>>
       ELSE IF InitThrows(config)
       THEN \* initializeApp / getFirestore / getAuth throws: catch, app.jsx:97-100
            /\ error' = ErrInit
            /\ authCleanup' = {}
            /\ UNCHANGED <<db, auth, nextId, authSubs, authInitPending,
                           signInPending, signInCalls>>
       ELSE \* app.jsx:59-95
            /\ db' = Firestore
            /\ auth' = AuthInstance
            /\ signInPending' = signInPending + 1
            /\ signInCalls' = signInCalls + 1
            /\ authSubs' = authSubs \cup {nextId}
            /\ authInitPending' = authInitPending \cup {nextId}
            /\ authCleanup' = {nextId}
            /\ nextId' = nextId + 1
            /\ UNCHANGED error
    /\ UNCHANGED <<inputs, userId, isAuthReady, dashboardData, loadingMessage,
                   view, dataCleanup, dataDeps, authUser, signInFailed,
                   signOuts, store>>

----------------------------------------------------------------------------
(* Effect 2: data subscription, app.jsx:104-136.  The effect reads db and  *)
(* isAuthReady of the render that scheduled it; React runs the previous    *)
(* cleanup before re-running it.  doc() is given a Firestore instance and *)
(* the six-segment path AGGREGATE_DOC_PATH (app.jsx:22-24), whose appId is *)
(* the host's identifier or 'default-app-id', so doc() and onSnapshot      *)
(* return normally and the catch of app.jsx:129-132 is not entered.        *)

\* if (!db || !isAuthReady) return;  app.jsx:106
GuardWithoutReady(dbv, ready) == dbv = NULL

DataGuard(dbv, ready) == dbv = NULL \/ ~ready

DataEffectDue ==
    \/ pc \in {"mountData", "remountData"}
    \/ pc = "live" /\ dataDeps # <<view.db, view.isAuthReady>>

DataEffect ==
    /\ DataEffectDue
    /\ pc' = IF pc = "mountData" /\ devMode THEN "strictCleanup" ELSE "live"
    /\ dataDeps' = <<view.db, view.isAuthReady>>
    /\ IF DataGuard(view.db, view.isAuthReady)
       THEN \* guard clause, app.jsx:106
            /\ docOpen' = Release(docOpen, dataCleanup)
            /\ dataCleanup' = {}
            /\ UNCHANGED <<nextId, docOpened>>
       ELSE \* onSnapshot(docRef, ...), app.jsx:115
            /\ docOpen' = Release(docOpen, dataCleanup) \cup {nextId}
            /\ dataCleanup' = {nextId}
            /\ nextId' = nextId + 1
            /\ docOpened' = docOpened + 1
    /\ UNCHANGED <<inputs, cells, view, authCleanup, provider, docErrored,
                   notifs, lastBody>>

\* StrictMode: after the first mount React runs every cleanup and then every
\* effect again, with the state kept.
StrictCleanup ==
    /\ pc = "strictCleanup"
    /\ pc' = "remountAuth"
    /\ authSubs' = Release(authSubs, authCleanup)
    /\ authInitPending' = Release(authInitPending, authCleanup)
    /\ docOpen' = Release(docOpen, dataCleanup)
    /\ authCleanup' = {} /\ dataCleanup' = {}
    /\ UNCHANGED <<inputs, cells, view, dataDeps, nextId, authUser,
                   signInPending, signInCalls, signInFailed, signOuts,
                   docErrored, docOpened, notifs, lastBody>>

\* Final teardown of the root.
Unmount ==
    /\ pc = "live"
    /\ pc' = "unmounted"
    /\ authSubs' = Release(authSubs, authCleanup)
    /\ authInitPending' = Release(authInitPending, authCleanup)
    /\ docOpen' = Release(docOpen, dataCleanup)
    /\ authCleanup' = {} /\ dataCleanup' = {}
    /\ UNCHANGED <<inputs, cells, view, dataDeps, nextId, authUser,
                   signInPending, signInCalls, signInFailed, signOuts,
                   docErrored, docOpened, notifs, lastBody>>

----------------------------------------------------------------------------
(* Identity provider.  Callbacks run between React's synchronous commits.  *)

Idle == pc \in {"live", "unmounted"}

\* Without the generated identifier: the current user's uid or nothing.
CallbackUserIdNoFallback(user, currentUser) ==
    IF user # NULL THEN user ELSE currentUser

\* user ? user.uid : (userAuth.currentUser?.uid || crypto.randomUUID()),
\* app.jsx:85-90
CallbackUserId(user, currentUser) ==
    IF user # NULL THEN user
    ELSE IF currentUser # NULL THEN currentUser
    ELSE RandomUUID

\* The onAuthStateChanged callback, app.jsx:84-93, called with `user` while
\* userAuth.currentUser is `currentUser`.
ReadyOnlyWithUser(user) == user # NULL

\* setIsAuthReady(true), app.jsx:91: whatever the user is
ReadyAfter(user) == TRUE

AuthCallback(user, currentUser) ==
    /\ userId' = CallbackUserId(user, currentUser)
    /\ isAuthReady' = (isAuthReady \/ ReadyAfter(user))
    /\ loadingMessage' = MsgConnecting

\* The provider's first notification to a new observer: the current user.
AuthInitialNotify(id) ==
    /\ Idle
    /\ id \in authInitPending
    /\ authInitPending' = authInitPending \ {id}
    /\ IF Mounted
       THEN AuthCallback(authUser, authUser)
       ELSE UNCHANGED <<userId, isAuthReady, loadingMessage>>
    /\ UNCHANGED <<inputs, db, auth, dashboardData, error, react, authUser,
                   authSubs, signInPending, signInCalls, signInFailed,
                   signOuts, store>>

\* await signInWithCustomToken / signInAnonymously resolves, app.jsx:69-73.
\* Every observer is told when the current user changes.
SignInSucceeds ==
    /\ Idle
    /\ signInPending > 0
    /\ signInPending' = signInPending - 1
    /\ authUser' = Uid
    /\ IF authUser = NULL /\ authSubs # {} /\ Mounted
       THEN AuthCallback(Uid, Uid)
       ELSE UNCHANGED <<userId, isAuthReady, loadingMessage>>
    /\ UNCHANGED <<inputs, db, auth, dashboardData, error, react, authSubs,
                   authInitPending, signInCalls, signInFailed, signOuts,
                   store>>

\* The sign-in call rejects: catch, app.jsx:74-78
SignInFails ==
    /\ Idle
    /\ signInPending > 0
    /\ signInPending' = signInPending - 1
    /\ signInFailed' = TRUE
    /\ userId' = IF Mounted THEN FallbackUserId ELSE userId
    /\ UNCHANGED <<inputs, db, auth, isAuthReady, dashboardData,
                   loadingMessage, error, react, authUser, authSubs,
                   authInitPending, signInCalls, signOuts, store>>

\* The provider reports that the user is gone (sign-out, revoked session).
ProviderSignOut ==
    /\ Idle
    /\ authUser # NULL
    /\ signOuts < MaxSignOuts
    /\ signOuts' = signOuts + 1
    /\ authUser' = NULL
    /\ IF authSubs # {} /\ Mounted
       THEN AuthCallback(NULL, NULL)
       ELSE UNCHANGED <<userId, isAuthReady, loadingMessage>>
    /\ UNCHANGED <<inputs, db, auth, dashboardData, error, react, authSubs,
                   authInitPending, signInPending, signInCalls, signInFailed,
                   store>>

----------------------------------------------------------------------------
(* Document store.  A listener gets snapshots until it is released or its  *)
(* error callback fires; after an error the store sends it nothing more.   *)

Listening(id) == id \in docOpen /\ id \notin docErrored

\* docSnap.exists(), app.jsx:116-118
DocSnapshotFrom(id, S) ==
    /\ Idle
    /\ Listening(id)
    /\ notifs < MaxNotifs
    /\ notifs' = notifs + 1
    /\ \E body \in S :
          /\ lastBody' = Some(body)
          /\ IF Mounted
             THEN /\ dashboardData' = StoreBody(dashboardData, body)
                  /\ loadingMessage' = MsgLoaded
             ELSE UNCHANGED <<dashboardData, loadingMessage>>
    /\ UNCHANGED <<inputs, db, auth, userId, isAuthReady, error, react,
                   provider, docOpen, docErrored, docOpened>>

DocSnapshot(id) == DocSnapshotFrom(id, Bodies)

\* !docSnap.exists(), app.jsx:119-123
DocMissing(id) ==
    /\ Idle
    /\ Listening(id)
    /\ notifs < MaxNotifs
    /\ notifs' = notifs + 1
    /\ lastBody' = Some(EmptyObject)
    /\ IF Mounted
       THEN /\ dashboardData' = Some(EmptyObject)
            /\ loadingMessage' = MsgNoData
       ELSE UNCHANGED <<dashboardData, loadingMessage>>
    /\ UNCHANGED <<inputs, db, auth, userId, isAuthReady, error, react,
                   provider, docOpen, docErrored, docOpened>>

\* The error callback, app.jsx:124-127
SnapshotErrorDropped(prev) == prev

SnapshotErrorValue(prev) == ErrSnapshot

DocError(id) ==
    /\ Idle
    /\ Listening(id)
    /\ docErrored' = docErrored \cup {id}
    /\ error' = IF Mounted THEN SnapshotErrorValue(error) ELSE error
    /\ UNCHANGED <<inputs, db, auth, userId, isAuthReady, dashboardData,
                   loadingMessage, react, provider, docOpen, docOpened,
                   notifs, lastBody>>

----------------------------------------------------------------------------
(* Render.  React re-renders when a state cell differs from what was last  *)
(* rendered, after the effects of the previous render have run.            *)

ViewCells == <<view.db, view.auth, view.userId, view.isAuthReady,
               view.dashboardData, view.loadingMessage, view.error>>

\* useMemo(..., [dashboardData]), app.jsx:151-159
MemoStale(prevDeps, nextDeps) == prevDeps # nextDeps

Render ==
    /\ pc = "live"
    /\ ~DataEffectDue
    /\ ViewCells # cells
    /\ view' = RenderOf(db, auth, userId, isAuthReady, dashboardData,
                        loadingMessage, error,
                        IF MemoStale(view.dashboardData, dashboardData)
                        THEN Summary(dashboardData) ELSE view.summary)
    /\ UNCHANGED <<inputs, cells, pc, authCleanup, dataCleanup, dataDeps,
                   nextId, provider, store>>

----------------------------------------------------------------------------

Next ==
    \/ AuthEffect
    \/ DataEffect
    \/ StrictCleanup
    \/ Unmount
    \/ Render
    \/ \E id \in authInitPending : AuthInitialNotify(id)
    \/ SignInSucceeds
    \/ SignInFails
    \/ ProviderSignOut
    \/ \E id \in docOpen : DocSnapshot(id)
    \/ \E id \in docOpen : DocMissing(id)
    \/ \E id \in docOpen : DocError(id)

Spec == Init /\ [][Next]_vars

TypeOK ==
    /\ pc \in {"mountAuth", "mountData", "strictCleanup", "remountAuth",
               "remountData", "live", "unmounted"}
    /\ db \in {NULL, Firestore}
    /\ userId \in {NULL, Uid, FallbackUserId, RandomUUID}
    /\ isAuthReady \in BOOLEAN
    /\ error \in {NULL, ErrConfig, ErrInit, ErrSnapshot}
    /\ view.screen \in {"Error", "Loading", "Ready"}

----------------------------------------------------------------------------
(* The component stays mounted: React finishes the commits it has started, *)
(* re-renders after a state change and runs the effects a render leaves    *)
(* due; the identity provider delivers the first notification to every     *)
(* observer.  Nothing is assumed of the sign-in calls or of the store.     *)

LiveNext ==
    \/ AuthEffect
    \/ DataEffect
    \/ StrictCleanup
    \/ Render
    \/ \E id \in authInitPending : AuthInitialNotify(id)
    \/ SignInSucceeds
    \/ SignInFails
    \/ ProviderSignOut
    \/ \E id \in docOpen : DocSnapshot(id)
    \/ \E id \in docOpen : DocMissing(id)
    \/ \E id \in docOpen : DocError(id)

LiveSpec ==
    /\ Init
    /\ [][LiveNext]_vars
    /\ WF_vars(AuthEffect)
    /\ WF_vars(DataEffect)
    /\ WF_vars(StrictCleanup)
    /\ WF_vars(Render)
    /\ WF_vars(\E id \in authInitPending : AuthInitialNotify(id))

----------------------------------------------------------------------------
(* Claims *)

\* C1: every step that opens a document subscription (calls onSnapshot) is
\* taken in a state where isAuthReady is true and db is set, StrictMode's
\* mount / unmount / mount included.
C1_SubscribeOnlyWhenReady ==
    [][docOpened' # docOpened => (isAuthReady /\ db # NULL)]_vars

\* C1 witness: StrictMode has remounted the component and the document
\* subscription has been opened.
C1_Witness == devMode /\ pc = "live" /\ docOpened > 0 /\ docOpen # {}

\* C2: at most one document subscription is active at any time, and none is
\* left after the final teardown.
C2_AtMostOneSubscription ==
    /\ Cardinality(docOpen) <= 1
    /\ pc = "unmounted" => docOpen = {}

\* C2 witness: a subscription was opened under StrictMode and released by the
\* final teardown.
C2_Witness == devMode /\ pc = "unmounted" /\ docOpened > 0 /\ docOpen = {}

\* C3: a rejected sign-in call does not set the error, and once a sign-in
\* call has been rejected the session becomes ready with an identity set and
\* the document subscription is opened.
C3_SignInFailureNotFatal ==
    /\ [][signInFailed' # signInFailed => error' = error]_vars
    /\ signInFailed ~> (isAuthReady /\ userId # NULL /\ docOpened > 0)

\* C3 witness: sign-in was rejected, no user exists, and the session is ready
\* under a placeholder identity with the subscription open.
C3_Witness ==
    /\ signInFailed /\ authUser = NULL /\ signInPending = 0
    /\ isAuthReady /\ userId \in {FallbackUserId, RandomUUID}
    /\ docOpen # {} /\ error = NULL

C5_ScreenPrecedence ==
    /\ view.screen \in {"Error", "Loading", "Ready"}
    /\ view.screen = "Error" <=> view.error # NULL
    /\ view.screen = "Loading" <=>
          (view.error = NULL /\
             (~view.isAuthReady \/ view.db = NULL \/ view.dashboardData = NoData))
    /\ view.screen = "Ready" => (isAuthReady /\ view.isAuthReady /\ view.error = NULL)

\* C5 witness: Ready is on screen.
C5_Witness == view.screen = "Ready" /\ isAuthReady /\ dashboardData # NoData

\* C6: with no error set and no document notification delivered yet the
\* screen is Loading, also when the session is ready.
C6_LoadingUntilFirstNotification ==
    (error = NULL /\ notifs = 0) => view.screen = "Loading"

\* C6 witness: the session is ready and rendered so, the subscription is
\* open, nothing has been delivered, and the screen is Loading.
C6_Witness ==
    /\ view.isAuthReady /\ view.db # NULL /\ docOpen # {} /\ notifs = 0
    /\ error = NULL /\ view.screen = "Loading"

\* C7: with an empty provider configuration the init effect sets the
\* configuration error, no sign-in is attempted, no identity or document
\* subscription is ever opened, and the error stays, with Error rendered
\* from then on.
C7_EmptyConfigIsFatal ==
    config = "empty" =>
        /\ signInCalls = 0 /\ authSubs = {} /\ docOpened = 0 /\ nextId = 1
        /\ pc # "mountAuth" => error = ErrConfig
        /\ view # InitialView => view.screen = "Error"
        /\ (pc = "live" /\ ViewCells = cells) => view.screen = "Error"

\* C7 witness: empty configuration, the init effect has run twice under
\* StrictMode, and Error is rendered.
C7_Witness ==
    config = "empty" /\ devMode /\ pc = "live" /\ view.screen = "Error"

\* C8 (as claimed): whenever a body is stored it has the three fields
\* populationByRegion, incomeDistribution and rawEntries.
C8_AllFieldsPresent ==
    dashboardData # NoData =>
        {"populationByRegion", "incomeDistribution", "rawEntries"}
            \subseteq DOMAIN dashboardData[1]

\* C9: the stored body is the body of the latest notification, whole; the
\* summary on screen is the summary of the body that render showed, and of
\* the latest notification's body once the render has caught up.
C9_SummaryOfLatestBody ==
    /\ dashboardData = lastBody
    /\ view.summary = Summary(view.dashboardData)
    /\ ViewCells = cells => view.summary = Summary(lastBody)

\* C9 witness: a body missing fields of the one before it has replaced it,
\* and Ready shows its summary.
C9_Witness ==
    /\ notifs >= 2 /\ view.screen = "Ready" /\ view.dashboardData = lastBody
    /\ ~HasField(lastBody, "averageIncome")
    /\ view.summary.totalPopulation = 4 /\ view.summary.avgIncome = 0

----------------------------------------------------------------------------
(* The derived values over every mapping within the bounds: the component  *)
(* is ready with its subscription open, the store delivers one body, and   *)
(* the component renders it.                                               *)

AggInit ==
    /\ config = "ok" /\ hasToken = FALSE /\ devMode = FALSE
    /\ pc = "live"
    /\ db = Firestore /\ auth = AuthInstance /\ userId = RandomUUID
    /\ isAuthReady = TRUE
    /\ dashboardData = NoData
    /\ loadingMessage = MsgConnecting
    /\ error = NULL
    /\ view = RenderOf(Firestore, AuthInstance, RandomUUID, TRUE, NoData,
                       MsgConnecting, NULL, Summary(NoData))
    /\ authCleanup = {1} /\ dataCleanup = {2}
    /\ dataDeps = <<Firestore, TRUE>>
    /\ nextId = 3
    /\ authUser = NULL /\ authSubs = {1} /\ authInitPending = {}
    /\ signInPending = 1 /\ signInCalls = 1 /\ signInFailed = FALSE
    /\ signOuts = 0
    /\ docOpen = {2} /\ docErrored = {} /\ docOpened = 1 /\ notifs = 0
    /\ lastBody = NoData

AggSnapshot(id) == notifs = 0 /\ DocSnapshotFrom(id, AggBodies)

AggNext ==
    \/ \E id \in docOpen : AggSnapshot(id)
    \/ Render

AggSpec == AggInit /\ [][AggNext]_vars

\* The state AggSpec starts from is one Spec reaches.
AggInitReached == AggInit

\* C10: topRegion is "N/A" for an empty mapping; otherwise it is the key of
\* the first entry, in iteration order, whose value is the maximum.
C10_TopRegionFirstMaximum ==
    HasField(view.dashboardData, "populationByRegion") =>
        LET m == view.dashboardData[1].populationByRegion
            top == view.summary.topRegion
        IN  IF m = <<>> THEN top = "N/A"
            ELSE \E i \in 1..Len(m) :
                    /\ m[i][1] = top
                    /\ \A j \in 1..Len(m) : m[j][2] <= m[i][2]
                    /\ \A j \in 1..(i - 1) : m[j][2] < m[i][2]

\* C10 witness: the maximum is shared by the second and third entries, and
\* the second is shown.
C10_Witness ==
    /\ HasField(view.dashboardData, "populationByRegion")
    /\ LET m == view.dashboardData[1].populationByRegion
       IN  /\ Len(m) = 3
           /\ m[1][2] < m[2][2] /\ m[2][2] = m[3][2]
           /\ view.summary.topRegion = m[2][1]

----------------------------------------------------------------------------
(* The bracket midpoint table, as the repository's other App variant has   *)
(* it: a label outside the table counts as midpoint 0.                     *)

Midpoint(bracket) ==
    CASE bracket = "0-25k" -> 12500
      [] bracket = "25k-50k" -> 37500
      [] bracket = "50k-75k" -> 62500
      [] bracket = "75k-100k" -> 87500
      [] bracket = "100k+" -> 150000
      [] OTHER -> 0

RECURSIVE WeightedSum(_)
WeightedSum(m) ==
    IF m = <<>> THEN 0
    ELSE Midpoint(Head(m)[1]) * Head(m)[2] + WeightedSum(Tail(m))

\* C11 (as claimed): the average income on the Ready screen is
\* sum(midpoint * count) / sum(count) over incomeDistribution, and 0 when the
\* counts sum to 0.
C11_AverageIncomeByMidpoints ==
    (view.screen = "Ready" /\ HasField(view.dashboardData, "incomeDistribution")) =>
        LET m == view.dashboardData[1].incomeDistribution
        IN  IF SumValues(m) = 0 THEN view.summary.avgIncome = 0
            ELSE view.summary.avgIncome * SumValues(m) = WeightedSum(m)

ChartKeys == <<"populationByRegion", "incomeDistribution">>

\* The distribution handed to chart k of a rendered body: the field's
\* mapping, or no entries when the field is absent.
ChartInput(data, k) ==
    IF HasField(data, ChartKeys[k]) THEN data[1][ChartKeys[k]] ELSE <<>>

\* C12: a chart of the Ready screen is the "no data" placeholder exactly when
\* its distribution is empty (or absent) or sums to 0; otherwise it has one
\* bar per entry, by value descending, each with share value / total.
C12_ChartPlaceholderIffNoData ==
    view.screen = "Ready" =>
        \A k \in 1..2 :
            LET D == ChartInput(view.dashboardData, k)
                c == view.charts[k]
            IN  /\ c.placeholder <=> (D = <<>> \/ SumValues(D) = 0)
                /\ ~c.placeholder =>
                     /\ Len(c.bars) = Len(D)
                     /\ \A i \in 1..Len(D) : \E j \in 1..Len(c.bars) :
                           /\ c.bars[j].label = D[i][1]
                           /\ c.bars[j].count = D[i][2]
                     /\ \A i, j \in 1..Len(c.bars) :
                           i < j => c.bars[i].count >= c.bars[j].count
                     /\ \A i \in 1..Len(c.bars) :
                           c.bars[i].share = <<c.bars[i].count, SumValues(D)>>

\* C12 witness: an income distribution whose entries arrive in ascending
\* order is drawn as bars in descending order, next to the placeholder of an
\* empty population mapping.
C12_Witness ==
    /\ view.screen = "Ready"
    /\ LET D == ChartInput(view.dashboardData, 2)
       IN  /\ Len(D) = 2 /\ D[1][2] < D[2][2]
           /\ ~view.charts[2].placeholder
           /\ view.charts[2].bars[1].label = D[2][1]
    /\ view.charts[1].placeholder

\* C13 (as claimed): isAuthReady never returns to false, exactly one
\* identity-change subscription is active while the component is mounted,
\* and none is left after teardown.
C13_ExactlyOneObserverWhileMounted ==
    /\ (view.isAuthReady \/ dataDeps[2]) => isAuthReady
    /\ pc = "live" => Cardinality(authSubs) = 1
    /\ pc = "unmounted" => authSubs = {}

\* C13 (amended): isAuthReady never returns to false; at most one
\* identity-change subscription is active at any time; while mounted after
\* the mount commit there is exactly one when the init effect succeeded
\* and none when the configuration is empty or initialization threw; none
\* is left after teardown.
C13_ReadyOnceAtMostOneObserver ==
    /\ [][isAuthReady => isAuthReady']_vars
    /\ [](/\ Cardinality(authSubs) <= 1
          /\ (pc = "live" /\ config = "ok") => Cardinality(authSubs) = 1
          /\ (pc = "live" /\ config # "ok") => authSubs = {}
          /\ pc = "unmounted" => authSubs = {})

\* C13 witness: under StrictMode, after the first notification, a sign-in
\* and a sign-out, the session is ready and one observer is active.
C13_Witness ==
    /\ devMode /\ pc = "live" /\ config = "ok"
    /\ isAuthReady /\ authInitPending = {} /\ signOuts > 0
    /\ Cardinality(authSubs) = 1

\* C14: whenever isAuthReady is true the userId is set, in the state cells
\* and in what every render shows.
C14_ReadyImpliesUserId ==
    /\ isAuthReady => userId # NULL
    /\ view.isAuthReady => view.userId # NULL
    /\ view.screen = "Ready" => view.userId # NULL

\* C14 witness: no user exists, the session is ready under a generated
\* identifier, and Ready shows it.
C14_Witness ==
    /\ authUser = NULL /\ isAuthReady /\ userId = RandomUUID
    /\ view.screen = "Ready" /\ view.userId = RandomUUID

====
